---- MODULE Spec2Model ----
(***************************************************************************)
(* Model of the Coinglass liquidation-heatmap screenshot actor             *)
(* (src/src/main.py): the response correlator, the canvas render-stability *)
(* detector, the pair / time-range selection procedures, the capture       *)
(* chain and the orchestration in screenshot_heatmap and main.             *)
(*                                                                         *)
(* Fill ratios are held in thousandths (the page script rounds them to     *)
(* three decimals), HTTP statuses as integers with 0 for "goto returned    *)
(* None", screenshot payloads as tags.                                     *)
(***************************************************************************)
EXTENDS Integers, Sequences, FiniteSets, TLC

VARIABLES
    \* main: the actor input after defaulting (main.py 272-276)
    coin, exchange, quote_currency, time_range,
    \* position of the single orchestration flow
    pc,
    \* browser session: "none" | "open" | "closed", and how often close ran
    browser, closes,
    \* response correlator (page.expect_response): its state ("idle" | "armed" |
    \* "resolved" | "expired"), the site that armed it, the triggering action
    \* ("no" | "running" | "returned"), and whether a matching response that
    \* arrived after the action was issued went unheard
    corr, site, acting, missed,
    \* status of the navigation response (0: goto returned None)
    navStatus,
    \* the page's chart configuration
    chart,
    \* labels the selection procedures work with
    pairName, timeKey, timeLabel,
    \* Actor.log: set of message tags
    log,
    \* how often each operation was invoked
    calls,
    \* capture_canvas_screenshot's result, screenshot_heatmap's result,
    \* the exception propagating out of screenshot_heatmap
    primary, ret, exc,
    \* the OUTPUT record main stores
    output,
    \* the chart configuration at the entry of each selection procedure, and the
    \* procedures whose listbox wait timed out
    entryChart, listboxTimedOut,
    \* capture_canvas_screenshot: what is_visible and bounding_box returned
    probe,
    \* wait_for_canvas_ready: its timeout argument, its locals, its result and
    \* the sample history
    cw_timeout, cw_pc, elapsed, last_fill_ratio, stable_count, polls, prevSample,
    adjacentStable,
    \* the samples the page is going to produce, when they are fixed in advance
    feed

inputs == <<coin, exchange, quote_currency, time_range>>
corrVars == <<corr, site, acting, missed>>
labels == <<pairName, timeKey, timeLabel>>
selGhost == <<entryChart, listboxTimedOut>>
pipeVars == <<inputs, pc, browser, closes, corrVars, navStatus, chart, labels,
              log, calls, primary, ret, exc, output, selGhost, probe>>
canvasVars == <<cw_timeout, cw_pc, elapsed, last_fill_ratio, stable_count, polls,
                prevSample, adjacentStable, feed>>
vars == <<pipeVars, canvasVars>>

(***************************************************************************)
(* Program constants                                                       *)
(***************************************************************************)
CanvasTimeoutMs == 10000
CheckIntervalMs == 200
FillThreshold == 100
DeltaBound == 10
StableNeeded == 2
InitialLastRatio == -1000
MinWidth == 500
MinHeight == 300
HardFailStatus == 400
OkStatus == 200

(***************************************************************************)
(* Bounds of the model                                                     *)
(***************************************************************************)
\* longest extra latency of one page.evaluate call, in check intervals
MaxEvalLatency == 1
\* longest sample run the orchestration's canvas waits are resolved over
MaxRunLen == 3
\* longest sample sequence fed to the detector
MaxFeedLen == 5

(***************************************************************************)
(* Time-range mapping and get_time_label                                   *)
(***************************************************************************)
TIME_RANGE_MAP ==
    ("12h" :> "12 hour") @@ ("24h" :> "24 hour") @@ ("48h" :> "48 hour") @@
    ("3d" :> "3 day") @@ ("1w" :> "1 week") @@ ("2w" :> "2 week") @@
    ("1m" :> "1 month") @@ ("3m" :> "3 month") @@ ("6m" :> "6 month") @@
    ("1y" :> "1 Year")

\* dict.get: the label, or None
TimeRangeGet(key) ==
    IF key \in DOMAIN TIME_RANGE_MAP THEN TIME_RANGE_MAP[key] ELSE "None"

\* Python truthiness of an optional string
TruthyStr(s) == s \notin {"None", ""}

GetTimeLabelRawKey(key) ==
    LET time_label == TimeRangeGet(key)
    IN  IF TruthyStr(time_label)
        THEN [key |-> key, label |-> time_label, warned |-> FALSE]
        ELSE [key |-> key, label |-> "24 hour", warned |-> TRUE]

GetTimeLabel(key) ==
    LET time_label == TimeRangeGet(key)
    IN  IF TruthyStr(time_label)
        THEN [key |-> key, label |-> time_label, warned |-> FALSE]
        ELSE [key |-> "24h", label |-> "24 hour", warned |-> TRUE]

(***************************************************************************)
(* is_heatmap_response                                                     *)
(***************************************************************************)
IsHeatmapResponse(hasKeyword, status) == hasKeyword /\ status = OkStatus

(***************************************************************************)
(* wait_for_canvas_ready: one poll of the loop as a function of the locals *)
(* and the sample page.evaluate produced                                   *)
(***************************************************************************)
Abs(n) == IF n < 0 THEN -n ELSE n

\* what one page.evaluate call can produce
ErrorSample == [kind |-> "error", ratio |-> 0]
NotReadySample == [kind |-> "notready", ratio |-> 0]
ReadySample(r) == [kind |-> "ready", ratio |-> r]
NoSample == [kind |-> "none", ratio |-> 0]

Ratios == {0, 50, 100, 101, 300, 305, 306, 310, 320}
Samples == {ErrorSample, NotReadySample} \cup {ReadySample(r) : r \in Ratios}

\* result["ready"] and result["ratio"] > 0.1
ContentPresent(s) == s.kind = "ready" /\ s.ratio > FillThreshold

\* a detector content with a single stable comparison
CanvasPollOneComparison(st, s) ==
    IF ContentPresent(s)
    THEN IF Abs(s.ratio - st.last) < DeltaBound
         THEN [last |-> st.last, stable |-> st.stable + 1, done |-> TRUE]
         ELSE [last |-> s.ratio, stable |-> 0, done |-> FALSE]
    ELSE [last |-> st.last, stable |-> st.stable, done |-> FALSE]

\* the loop body, lines 54-80: new locals and whether the call returns True
CanvasPoll(st, s) ==
    IF ContentPresent(s)
    THEN IF Abs(s.ratio - st.last) < DeltaBound
         THEN [last |-> IF st.stable + 1 >= StableNeeded THEN st.last ELSE s.ratio,
               stable |-> st.stable + 1,
               done |-> st.stable + 1 >= StableNeeded]
         ELSE [last |-> s.ratio, stable |-> 0, done |-> FALSE]
    ELSE [last |-> st.last, stable |-> st.stable, done |-> FALSE]

CanvasStart == [last |-> InitialLastRatio, stable |-> 0, done |-> FALSE]

\* the whole call on a run of samples that fits within the timeout
RECURSIVE CanvasRun(_, _)
CanvasRun(st, run) ==
    IF st.done THEN TRUE
    ELSE IF run = <<>> THEN FALSE
    ELSE CanvasRun(CanvasPoll(st, Head(run)), Tail(run))

WaitForCanvasReadyOn(run) == CanvasRun(CanvasStart, run)

\* the sample runs a canvas wait of the orchestration is resolved over
RECURSIVE RunsUpTo(_)
RunsUpTo(n) ==
    IF n = 0 THEN {<<>>}
    ELSE LET shorter == RunsUpTo(n - 1)
         IN  shorter \cup {Append(r, s) : r \in shorter, s \in Samples}

CanvasOutcomes == {WaitForCanvasReadyOn(run) : run \in RunsUpTo(MaxRunLen)}

(***************************************************************************)
(* wait_for_canvas_ready as a process: one action per loop iteration       *)
(***************************************************************************)
\* lines 49-51: the locals when the loop is entered
CanvasLocals ==
    /\ cw_pc = "loop"
    /\ elapsed = 0
    /\ last_fill_ratio = InitialLastRatio
    /\ stable_count = 0
    /\ polls = 0
    /\ prevSample = NoSample
    /\ adjacentStable = FALSE

\* a call with the default timeout, the page free to produce any sample
CanvasInit ==
    /\ cw_timeout = CanvasTimeoutMs
    /\ feed = <<>>
    /\ CanvasLocals

\* the detector is not running (the orchestration resolves its waits whole)
CanvasIdle ==
    /\ cw_timeout = CanvasTimeoutMs
    /\ feed = <<>>
    /\ cw_pc = "idle"
    /\ elapsed = 0
    /\ last_fill_ratio = InitialLastRatio
    /\ stable_count = 0
    /\ polls = 0
    /\ prevSample = NoSample
    /\ adjacentStable = FALSE

\* two adjacent polls both content-present and closer than the delta bound
AdjacentPair(a, b) ==
    /\ ContentPresent(a)
    /\ ContentPresent(b)
    /\ Abs(b.ratio - a.ratio) < DeltaBound

LoopTestInclusive(now, timeout) == now <= timeout

\* line 53: (time.time() - start_time) * 1000 < timeout
LoopTest(now, timeout) == now < timeout

\* lines 54-82: one sample `s`, obtained after `d` ms, is judged, and the call
\* either returns True or sleeps check_interval
Poll(s, d) ==
    LET st == CanvasPoll([last |-> last_fill_ratio, stable |-> stable_count,
                          done |-> FALSE], s)
    IN  /\ last_fill_ratio' = st.last
        /\ stable_count' = st.stable
        /\ polls' = polls + 1
        /\ prevSample' = s
        /\ adjacentStable' = (adjacentStable \/ AdjacentPair(prevSample, s))
        /\ IF st.done
           THEN cw_pc' = "true" /\ elapsed' = elapsed + d
           ELSE cw_pc' = "loop" /\ elapsed' = elapsed + d + CheckIntervalMs

\* lines 53-82: the loop test passes and the page produces some sample
CanvasSample ==
    /\ cw_pc = "loop"
    /\ LoopTest(elapsed, cw_timeout)
    /\ \E s \in Samples, d \in {k * CheckIntervalMs : k \in 0..MaxEvalLatency} :
         Poll(s, d)
    /\ UNCHANGED <<cw_timeout, feed>>
    /\ UNCHANGED pipeVars

\* lines 53-82: the loop test passes and the page produces the next sample of
\* the feed, at once
FeedSample ==
    /\ cw_pc = "loop"
    /\ LoopTest(elapsed, cw_timeout)
    /\ polls < Len(feed)
    /\ Poll(feed[polls + 1], 0)
    /\ UNCHANGED <<cw_timeout, feed>>
    /\ UNCHANGED pipeVars

\* lines 53, 84: the loop test fails and the call returns False
CanvasTimeout ==
    /\ cw_pc = "loop"
    /\ ~LoopTest(elapsed, cw_timeout)
    /\ cw_pc' = "false"
    /\ UNCHANGED <<cw_timeout, elapsed, last_fill_ratio, stable_count, polls,
                   prevSample, adjacentStable, feed>>
    /\ UNCHANGED pipeVars

CanvasNext == CanvasSample \/ CanvasTimeout

FeedNext == FeedSample \/ CanvasTimeout

(***************************************************************************)
(* The orchestration: inputs and initial state                             *)
(***************************************************************************)
Coins == {"BTC", "ETH"}
Exchanges == {"Binance", "OKX"}
Quotes == {"USDT", "USD"}
InvalidTimeKeys == {"", "7d", "1W"}
TimeRangeInputs == DOMAIN TIME_RANGE_MAP \cup InvalidTimeKeys

Sites == {"nav", "pair", "time", "cap"}
Ops == {"enter", "control_click", "listbox_wait", "arm", "action", "canvas_wait",
        "canvas_strategy", "container_strategy", "screenshot"}

Count(s, op) == calls[<<s, op>>]
Total(op) == Count("nav", op) + Count("pair", op) + Count("time", op) + Count("cap", op)
Bump(s, op) == [calls EXCEPT ![<<s, op>>] = @ + 1]

NoOutput == [written |-> FALSE, success |-> FALSE, timeRange |-> "", error |-> "",
             filename |-> "", image |-> "None"]

BlankChart == [pair |-> "blank", time |-> "blank"]

\* capture_canvas_screenshot has not asked the page anything
Unqueried ==
    [vis |-> "unqueried", box |-> [kind |-> "unqueried", width |-> 0, height |-> 0]]

\* Python truthiness of bytes | None
TruthyBytes(d) == d \notin {"None", "empty"}

PipeInit ==
    /\ coin \in Coins
    /\ exchange \in Exchanges
    /\ quote_currency \in Quotes
    /\ time_range \in TimeRangeInputs
    /\ pc = "launch"
    /\ browser = "none"
    /\ closes = 0
    /\ corr = "idle"
    /\ site = "none"
    /\ acting = "no"
    /\ missed = FALSE
    /\ navStatus = 0
    /\ chart = BlankChart
    /\ pairName = ""
    /\ timeKey = ""
    /\ timeLabel = ""
    /\ log = {"start"}
    /\ calls = [e \in Sites \X Ops |-> 0]
    /\ primary = "None"
    /\ ret = "pending"
    /\ exc = "none"
    /\ output = NoOutput
    /\ entryChart = [s \in {"pair", "time"} |-> BlankChart]
    /\ listboxTimedOut = {}
    /\ probe = Unqueried

\* the configuration the page shows after loading ?coin=<coin>
DefaultChart == [pair |-> "Binance " \o coin \o "/USDT Perpetual", time |-> "24 hour"]

(***************************************************************************)
(* The environment: responses of the heatmap API and the correlator timer  *)
(***************************************************************************)
ResponseStatuses == {200, 304, 500}

\* a page that has started loading can receive responses
PageLive ==
    /\ browser = "open"
    /\ pc \notin {"launch", "new_page", "nav_arm", "nav_goto", "finally",
                  "main_output", "done", "crashed"}

\* a response reaches the page: an armed listener whose predicate accepts it
\* resolves; otherwise the response is gone
HeatmapResponse ==
    /\ PageLive
    /\ \E hasKeyword \in BOOLEAN, status \in ResponseStatuses :
         LET match == IsHeatmapResponse(hasKeyword, status)
             resolves == match /\ corr = "armed"
             pending == match /\ acting # "no" /\ corr # "expired"
         IN  /\ corr' = IF resolves THEN "resolved" ELSE corr
             /\ missed' = (missed \/ (pending /\ corr' # "resolved"))
    /\ UNCHANGED <<inputs, selGhost, probe,
                   pc, browser, closes, site, acting, navStatus, chart,
                   labels, log, calls, primary, ret, exc, output, canvasVars>>

\* API_TIMEOUT_MS pass without a matching response
CorrTimeout ==
    /\ corr = "armed"
    /\ corr' = "expired"
    /\ UNCHANGED <<inputs, selGhost, probe,
                   pc, browser, closes, site, acting, missed, navStatus,
                   chart, labels, log, calls, primary, ret, exc, output,
                   canvasVars>>

(***************************************************************************)
(* screenshot_heatmap: browser launch and page creation                    *)
(***************************************************************************)
\* line 239: launch, outside the try block
Launch ==
    /\ pc = "launch"
    /\ \/ browser' = "open" /\ pc' = "new_page" /\ exc' = exc
       \/ browser' = browser /\ pc' = "crashed" /\ exc' = "Error"
    /\ UNCHANGED <<inputs, selGhost, probe,
                   closes, corrVars, navStatus, chart, labels, log, calls,
                   primary, ret, output, canvasVars>>

\* lines 241-248: new_context and new_page; a failure runs the finally block
NewPage ==
    /\ pc = "new_page"
    /\ \/ pc' = "nav_arm" /\ exc' = exc /\ log' = log \cup {"opening"}
       \/ pc' = "finally" /\ exc' = "Error" /\ log' = log
    /\ UNCHANGED <<inputs, selGhost, probe,
                   browser, closes, corrVars, navStatus, chart, labels,
                   calls, primary, ret, output, canvasVars>>

(***************************************************************************)
(* open_heatmap_page                                                       *)
(***************************************************************************)
NavStatuses == {0, OkStatus, HardFailStatus - 1, HardFailStatus, 404}

\* response and response.status >= 400
HardFail(status) == status # 0 /\ status >= HardFailStatus

\* the listener is armed only once goto has been issued
NavArmAfterGoto ==
    /\ pc = "nav_arm"
    /\ pc' = "nav_goto"
    /\ site' = "nav"
    /\ UNCHANGED <<inputs, selGhost, probe,
                   browser, closes, corr, acting, missed, navStatus,
                   chart, labels, log, calls, primary, ret, exc, output, canvasVars>>

\* line 111: entering the expect_response block arms the listener
NavArm ==
    /\ pc = "nav_arm"
    /\ corr' = "armed"
    /\ site' = "nav"
    /\ calls' = Bump("nav", "arm")
    /\ pc' = "nav_goto"
    /\ UNCHANGED <<inputs, selGhost, probe,
                   browser, closes, acting, missed, navStatus,
                   chart, labels, log, primary, ret, exc, output, canvasVars>>

\* line 112: page.goto is issued
NavGoto ==
    /\ pc = "nav_goto"
    /\ acting' = "running"
    /\ calls' = Bump("nav", "action")
    /\ pc' = "nav_running"
    /\ UNCHANGED <<inputs, selGhost, probe,
                   browser, closes, corr, site, missed, navStatus,
                   chart, labels, log, primary, ret, exc, output, canvasVars>>

\* line 112: goto returns the navigation response (or None), or raises, which
\* cancels the listener and leaves through the finally block
NavGotoReturn ==
    /\ pc = "nav_running"
    /\ \/ \E st \in NavStatuses :
            /\ navStatus' = st
            /\ chart' = DefaultChart
            /\ acting' = "returned"
            /\ pc' = "nav_exit"
            /\ UNCHANGED <<corr, site, exc>>
       \/ /\ acting' = "no"
          /\ corr' = "idle"
          /\ site' = "none"
          /\ exc' = "Error"
          /\ pc' = "finally"
          /\ UNCHANGED <<navStatus, chart>>
    /\ UNCHANGED <<inputs, selGhost, probe,
                   browser, closes, missed, labels, log, calls,
                   primary, ret, output, canvasVars>>

\* lines 111-112: leaving the expect_response block awaits the listener's
\* future; it yields the response or raises TimeoutError
NavExit ==
    /\ pc = "nav_exit"
    /\ \/ corr = "resolved" /\ pc' = "nav_check" /\ exc' = exc
       \/ corr = "expired" /\ pc' = "finally" /\ exc' = "TimeoutError"
    /\ corr' = "idle"
    /\ site' = "none"
    /\ acting' = "no"
    /\ UNCHANGED <<inputs, selGhost, probe,
                   browser, closes, missed, navStatus, chart,
                   labels, log, calls, primary, ret, output, canvasVars>>

\* lines 114-119: the status test, then the (already resolved) response
NavCheck ==
    /\ pc = "nav_check"
    /\ IF HardFail(navStatus)
       THEN /\ log' = log \cup {"http_error"}
            /\ ret' = "None"
            /\ pc' = "finally"
       ELSE /\ log' = log \cup {"api_loaded"}
            /\ ret' = ret
            /\ pc' = "nav_canvas"
    /\ UNCHANGED <<inputs, selGhost, probe,
                   browser, closes, corrVars, navStatus, chart, labels,
                   calls, primary, exc, output, canvasVars>>

\* wait_canvas_or_warn, lines 93-98, for the call at `s`
WaitCanvasOrWarn(s, timeout_message, success_message, next) ==
    /\ \E ready \in CanvasOutcomes :
         log' = IF ready
                THEN (IF success_message # "" THEN log \cup {success_message} ELSE log)
                ELSE log \cup {timeout_message}
    /\ calls' = Bump(s, "canvas_wait")
    /\ pc' = next

\* line 120-121
NavCanvas ==
    /\ pc = "nav_canvas"
    /\ WaitCanvasOrWarn("nav", "canvas_timeout_initial", "canvas_ready", "pair_check")
    /\ UNCHANGED <<inputs, selGhost, probe,
                   browser, closes, corrVars, navStatus, chart, labels,
                   primary, ret, exc, output, canvasVars>>

(***************************************************************************)
(* Steps shared by the two selection procedures                            *)
(***************************************************************************)
\* an except clause that lets the failure end the pipeline
SelectFailedAborts(failTag, failPc) ==
    /\ log' = log \cup {failTag}
    /\ pc' = "finally"

\* the except clause of a selection procedure: warn and return
SelectFailed(failTag, failPc) ==
    /\ log' = log \cup {failTag}
    /\ pc' = failPc

\* lines 132-133 / 155-158: click the combobox control
ControlClick(s, okPc, failTag, failPc) ==
    /\ calls' = Bump(s, "control_click")
    /\ \/ pc' = okPc /\ log' = log
       \/ SelectFailed(failTag, failPc)
    /\ UNCHANGED <<inputs, selGhost, probe,
                   browser, closes, corrVars, navStatus, chart, labels,
                   primary, ret, exc, output, canvasVars>>

\* a listbox wait whose timeout goes unnoticed
ListboxWaitIgnoresTimeout(s, okPc, failTag, failPc) ==
    /\ calls' = Bump(s, "listbox_wait")
    /\ pc' = okPc
    /\ log' = log
    /\ \/ listboxTimedOut' = listboxTimedOut
       \/ listboxTimedOut' = listboxTimedOut \cup {s}
    /\ UNCHANGED <<inputs, entryChart, probe, browser, closes, corrVars, navStatus,
                   chart, labels, primary, ret, exc, output, canvasVars>>

\* lines 135-136 / 160-161: wait LISTBOX_TIMEOUT_MS for the option list
ListboxWait(s, okPc, failTag, failPc) ==
    /\ calls' = Bump(s, "listbox_wait")
    /\ \/ pc' = okPc /\ log' = log /\ listboxTimedOut' = listboxTimedOut
       \/ SelectFailed(failTag, failPc) /\ listboxTimedOut' = listboxTimedOut \cup {s}
    /\ UNCHANGED <<inputs, entryChart, probe,
                   browser, closes, corrVars, navStatus, chart, labels,
                   primary, ret, exc, output, canvasVars>>

\* wait_for_heatmap_update, line 88: entering expect_response arms the listener
UpdateArm(s, next) ==
    /\ corr' = "armed"
    /\ site' = s
    /\ calls' = Bump(s, "arm")
    /\ pc' = next
    /\ UNCHANGED <<inputs, selGhost, probe,
                   browser, closes, acting, missed, navStatus,
                   chart, labels, log, primary, ret, exc, output, canvasVars>>

\* wait_for_heatmap_update, line 89: the option click is issued
UpdateAction(s, next) ==
    /\ acting' = "running"
    /\ calls' = Bump(s, "action")
    /\ pc' = next
    /\ UNCHANGED <<inputs, selGhost, probe,
                   browser, closes, corr, site, missed, navStatus,
                   chart, labels, log, primary, ret, exc, output, canvasVars>>

\* wait_for_heatmap_update, line 89: the click lands and the page switches to
\* `selected`, or the click raises, which cancels the listener
UpdateActionReturn(selected, okPc, failTag, failPc) ==
    /\ \/ /\ chart' = selected
          /\ acting' = "returned"
          /\ pc' = okPc
          /\ UNCHANGED <<corr, site, log>>
       \/ /\ acting' = "no"
          /\ corr' = "idle"
          /\ site' = "none"
          /\ chart' = chart
          /\ SelectFailed(failTag, failPc)
    /\ UNCHANGED <<inputs, selGhost, probe,
                   browser, closes, missed, navStatus, labels,
                   calls, primary, ret, exc, output, canvasVars>>

\* wait_for_heatmap_update, lines 88-90: leaving the block awaits the response;
\* a timeout raises into the caller's except clause
UpdateExit(okTag, okPc, failTag, failPc) ==
    /\ \/ corr = "resolved" /\ log' = log \cup {okTag} /\ pc' = okPc
       \/ corr = "expired" /\ SelectFailed(failTag, failPc)
    /\ corr' = "idle"
    /\ site' = "none"
    /\ acting' = "no"
    /\ UNCHANGED <<inputs, selGhost, probe,
                   browser, closes, missed, navStatus, chart,
                   labels, calls, primary, ret, exc, output, canvasVars>>

(***************************************************************************)
(* select_pair                                                             *)
(***************************************************************************)
SkipPairExchangeOnly(ex, quote) == ex = "Binance"

\* line 125
SkipPair(ex, quote) == ex = "Binance" /\ quote = "USDT"

PairNameNoSuffix(ex, c, quote) == ex \o " " \o c \o "/" \o quote

\* line 128
PairName(ex, c, quote) == ex \o " " \o c \o "/" \o quote \o " Perpetual"

\* lines 124-129
PairCheck ==
    /\ pc = "pair_check"
    /\ calls' = Bump("pair", "enter")
    /\ entryChart' = [entryChart EXCEPT !["pair"] = chart]
    /\ IF SkipPair(exchange, quote_currency)
       THEN pc' = "time_resolve" /\ UNCHANGED <<pairName, log>>
       ELSE /\ pairName' = PairName(exchange, coin, quote_currency)
            /\ log' = log \cup {"pair_selecting"}
            /\ pc' = "pair_click"
    /\ UNCHANGED <<inputs, listboxTimedOut, probe,
                   browser, closes, corrVars, navStatus, chart, timeKey,
                   timeLabel, primary, ret, exc, output, canvasVars>>

PairControlClick ==
    /\ pc = "pair_click"
    /\ ControlClick("pair", "pair_listbox", "pair_failed", "time_resolve")

PairListbox ==
    /\ pc = "pair_listbox"
    /\ ListboxWait("pair", "pair_arm", "pair_failed", "time_resolve")

\* line 139
PairArm == pc = "pair_arm" /\ UpdateArm("pair", "pair_option")

PairOption == pc = "pair_option" /\ UpdateAction("pair", "pair_running")

PairOptionReturn ==
    /\ pc = "pair_running"
    /\ UpdateActionReturn([chart EXCEPT !.pair = pairName], "pair_exit",
                          "pair_failed", "time_resolve")

\* lines 139-141
PairExit ==
    /\ pc = "pair_exit"
    /\ UpdateExit("pair_selected", "pair_canvas", "pair_failed", "time_resolve")

\* line 142
PairCanvas ==
    /\ pc = "pair_canvas"
    /\ WaitCanvasOrWarn("pair", "canvas_timeout_update", "", "time_resolve")
    /\ UNCHANGED <<inputs, selGhost, probe,
                   browser, closes, corrVars, navStatus, chart, labels,
                   primary, ret, exc, output, canvasVars>>

(***************************************************************************)
(* select_time_range                                                       *)
(***************************************************************************)
SkipTimeNever(key) == FALSE

\* line 149
SkipTime(key) == key = "24h"

\* lines 147-152
TimeResolve ==
    /\ pc = "time_resolve"
    /\ calls' = Bump("time", "enter")
    /\ entryChart' = [entryChart EXCEPT !["time"] = chart]
    /\ LET r == GetTimeLabel(time_range)
           warned == IF r.warned THEN log \cup {"time_invalid"} ELSE log
       IN  /\ timeKey' = r.key
           /\ timeLabel' = r.label
           /\ IF SkipTime(r.key)
              THEN pc' = "cap_canvas" /\ log' = warned
              ELSE pc' = "time_click" /\ log' = warned \cup {"time_selecting"}
    /\ UNCHANGED <<inputs, listboxTimedOut, probe,
                   browser, closes, corrVars, navStatus, chart, pairName,
                   primary, ret, exc, output, canvasVars>>

TimeControlClick ==
    /\ pc = "time_click"
    /\ ControlClick("time", "time_listbox", "time_failed", "cap_canvas")

TimeListbox ==
    /\ pc = "time_listbox"
    /\ ListboxWait("time", "time_arm", "time_failed", "cap_canvas")

\* line 164
TimeArm == pc = "time_arm" /\ UpdateArm("time", "time_option")

TimeOption == pc = "time_option" /\ UpdateAction("time", "time_running")

TimeOptionReturn ==
    /\ pc = "time_running"
    /\ UpdateActionReturn([chart EXCEPT !.time = timeLabel], "time_exit",
                          "time_failed", "cap_canvas")

\* lines 164-166
TimeExit ==
    /\ pc = "time_exit"
    /\ UpdateExit("time_selected", "time_canvas", "time_failed", "cap_canvas")

\* line 167
TimeCanvas ==
    /\ pc = "time_canvas"
    /\ WaitCanvasOrWarn("time", "canvas_timeout_update", "", "cap_canvas")
    /\ UNCHANGED <<inputs, selGhost, probe,
                   browser, closes, corrVars, navStatus, chart, labels,
                   primary, ret, exc, output, canvasVars>>

(***************************************************************************)
(* Capture chain                                                           *)
(***************************************************************************)
VisibleOutcomes == {"visible", "hidden", "raise"}
ShotOutcomes == {"png", "empty", "raise"}
BoxOutcomes ==
    {[kind |-> "none", width |-> 0, height |-> 0],
     [kind |-> "raise", width |-> 0, height |-> 0]}
    \cup {[kind |-> "box", width |-> w, height |-> h] :
            w \in {MinWidth, MinWidth + 1}, h \in {MinHeight, MinHeight + 1}}

BoxTooSmallStrict(box) ==
    box.kind = "none" \/ box.width < MinWidth \/ box.height < MinHeight

\* not box or box["width"] <= 500 or box["height"] <= 300
BoxTooSmall(box) ==
    box.kind = "none" \/ box.width <= MinWidth \/ box.height <= MinHeight

\* capture_canvas_screenshot, lines 174-189: the bytes returned (or None), the
\* number of screenshot calls made, and the message logged
CaptureCanvasScreenshot(vis, box, shot) ==
    IF vis = "raise" THEN [data |-> "None", shots |-> 0, tag |-> "canvas_shot_error"]
    ELSE IF vis = "hidden" THEN [data |-> "None", shots |-> 0, tag |-> ""]
    ELSE IF box.kind = "raise"
         THEN [data |-> "None", shots |-> 0, tag |-> "canvas_shot_error"]
    ELSE IF BoxTooSmall(box) THEN [data |-> "None", shots |-> 0, tag |-> ""]
    ELSE IF shot = "raise"
         THEN [data |-> "None", shots |-> 1, tag |-> "canvas_shot_error"]
    ELSE [data |-> IF shot = "png" THEN "canvas_png" ELSE "empty",
          shots |-> 1, tag |-> "canvas_shot_ok"]

\* capture_container_screenshot, lines 192-204
CaptureContainerScreenshot(vis, shot) ==
    IF vis = "raise" THEN [data |-> "None", shots |-> 0, tag |-> "container_shot_error"]
    ELSE IF vis = "hidden" THEN [data |-> "None", shots |-> 0, tag |-> ""]
    ELSE IF shot = "raise"
         THEN [data |-> "None", shots |-> 1, tag |-> "container_shot_error"]
    ELSE [data |-> IF shot = "png" THEN "container_png" ELSE "empty",
          shots |-> 1, tag |-> "container_shot_ok"]

\* lines 177-181: what capture_canvas_screenshot learnt from the page; the
\* bounding box is asked for only when is_visible returned True
Probe(vis, box) ==
    [vis |-> vis, box |-> IF vis = "visible" THEN box ELSE Unqueried.box]

AddTag(tag) == IF tag = "" THEN log ELSE log \cup {tag}

\* capture_heatmap, line 208: the primary strategy runs
CapCanvas ==
    /\ pc = "cap_canvas"
    /\ \E vis \in VisibleOutcomes, box \in BoxOutcomes, shot \in ShotOutcomes :
         LET r == CaptureCanvasScreenshot(vis, box, shot)
         IN  /\ primary' = r.data
             /\ log' = AddTag(r.tag)
             /\ calls' = [calls EXCEPT ![<<"cap", "canvas_strategy">>] = @ + 1,
                                       ![<<"cap", "screenshot">>] = @ + r.shots]
             /\ probe' = Probe(vis, box)
    /\ pc' = "cap_decide"
    /\ UNCHANGED <<inputs, selGhost,
                   browser, closes, corrVars, navStatus, chart, labels,
                   ret, exc, output, canvasVars>>

FallbackAlways(data) == TRUE

\* line 209: not screenshot_data
NeedsFallback(data) == ~TruthyBytes(data)

\* a chain that returns the primary result whatever it is
CapDecideNoFallback ==
    /\ pc = "cap_decide"
    /\ ret' = primary
    /\ pc' = "finally"
    /\ probe' = Unqueried
    /\ UNCHANGED <<inputs, selGhost,
                   browser, closes, corrVars, navStatus, chart, labels,
                   log, calls, primary, exc, output, canvasVars>>

\* capture_heatmap, lines 209-212
CapDecide ==
    /\ pc = "cap_decide"
    /\ IF NeedsFallback(primary)
       THEN /\ log' = log \cup {"try_container"}
            /\ ret' = ret
            /\ pc' = "cap_container"
       ELSE /\ log' = log
            /\ ret' = primary
            /\ pc' = "finally"
    /\ probe' = Unqueried
    /\ UNCHANGED <<inputs, selGhost,
                   browser, closes, corrVars, navStatus, chart, labels,
                   calls, primary, exc, output, canvasVars>>

\* capture_heatmap, line 213: the fallback strategy runs and its result is returned
CapContainer ==
    /\ pc = "cap_container"
    /\ \E vis \in VisibleOutcomes, shot \in ShotOutcomes :
         LET r == CaptureContainerScreenshot(vis, shot)
         IN  /\ ret' = r.data
             /\ log' = AddTag(r.tag)
             /\ calls' = [calls EXCEPT ![<<"cap", "container_strategy">>] = @ + 1,
                                       ![<<"cap", "screenshot">>] = @ + r.shots]
    /\ pc' = "finally"
    /\ UNCHANGED <<inputs, selGhost, probe,
                   browser, closes, corrVars, navStatus, chart, labels,
                   primary, exc, output, canvasVars>>

(***************************************************************************)
(* screenshot_heatmap's finally block, and main                            *)
(***************************************************************************)
\* a close placed after the try block instead of in a finally clause
FinallyOnlyWithoutException ==
    /\ pc = "finally"
    /\ browser' = IF exc = "none" THEN "closed" ELSE browser
    /\ closes' = IF exc = "none" THEN closes + 1 ELSE closes
    /\ pc' = IF exc = "none" THEN "main_output" ELSE "crashed"
    /\ UNCHANGED <<inputs, selGhost, probe,
                   corrVars, navStatus, chart, labels, log, calls,
                   primary, ret, exc, output, canvasVars>>

\* lines 256-257: close the browser; a pending exception goes on into main,
\* which has no handler for it
Finally ==
    /\ pc = "finally"
    /\ browser' = "closed"
    /\ closes' = closes + 1
    /\ pc' = IF exc = "none" THEN "main_output" ELSE "crashed"
    /\ UNCHANGED <<inputs, selGhost, probe,
                   corrVars, navStatus, chart, labels, log, calls,
                   primary, ret, exc, output, canvasVars>>

\* line 304, without the timestamp
Filename == exchange \o "_" \o coin \o quote_currency \o "_" \o time_range \o ".png"

\* main, lines 290-321
MainOutput ==
    /\ pc = "main_output"
    /\ IF ~TruthyBytes(ret)
       THEN /\ output' = [written |-> TRUE, success |-> FALSE,
                          timeRange |-> time_range, error |-> "screenshot failed",
                          filename |-> "", image |-> "None"]
            /\ log' = log \cup {"screenshot_failed"}
       ELSE /\ output' = [written |-> TRUE, success |-> TRUE,
                          timeRange |-> time_range, error |-> "",
                          filename |-> Filename, image |-> ret]
            /\ log' = log \cup {"finished"}
    /\ pc' = "done"
    /\ UNCHANGED <<inputs, selGhost, probe,
                   browser, closes, corrVars, navStatus, chart, labels,
                   calls, primary, ret, exc, canvasVars>>

(***************************************************************************)
(* Specifications                                                          *)
(***************************************************************************)
Init == PipeInit /\ CanvasIdle

Next ==
    \/ Launch \/ NewPage
    \/ NavArm \/ NavGoto \/ NavGotoReturn \/ NavExit \/ NavCheck \/ NavCanvas
    \/ PairCheck \/ PairControlClick \/ PairListbox \/ PairArm \/ PairOption
    \/ PairOptionReturn \/ PairExit \/ PairCanvas
    \/ TimeResolve \/ TimeControlClick \/ TimeListbox \/ TimeArm \/ TimeOption
    \/ TimeOptionReturn \/ TimeExit \/ TimeCanvas
    \/ CapCanvas \/ CapDecide \/ CapContainer
    \/ Finally \/ MainOutput
    \/ HeatmapResponse \/ CorrTimeout

Spec == Init /\ [][Next]_vars

\* the render-stability detector on its own, under all-default inputs
InitCanvas ==
    /\ PipeInit
    /\ coin = "BTC" /\ exchange = "Binance" /\ quote_currency = "USDT"
    /\ time_range = "24h"
    /\ CanvasInit

SpecCanvas == InitCanvas /\ [][CanvasNext]_vars

\* the samples a feed is made of: an evaluate that raised, two ratios without
\* content, three ratios within the delta bound of each other and one apart
FeedSamples ==
    {ErrorSample} \cup {ReadySample(r) : r \in {0, 50, 300, 305, 306, 320}}

RECURSIVE FeedsUpTo(_)
FeedsUpTo(n) ==
    IF n = 0 THEN {<<>>}
    ELSE LET shorter == FeedsUpTo(n - 1)
         IN  shorter \cup {Append(r, s) : r \in shorter, s \in FeedSamples}

\* line 37: the timeout argument, the default or one that caps the call at
\* three samples
FeedTimeouts == {3 * CheckIntervalMs, CanvasTimeoutMs}

\* the detector run on a sample sequence fixed beforehand, one sample per
\* check interval
InitFeed ==
    /\ PipeInit
    /\ coin = "BTC" /\ exchange = "Binance" /\ quote_currency = "USDT"
    /\ time_range = "24h"
    /\ cw_timeout \in FeedTimeouts
    /\ feed \in FeedsUpTo(MaxFeedLen)
    /\ CanvasLocals

SpecFeed == InitFeed /\ [][FeedNext]_vars

(***************************************************************************)
(* Properties                                                              *)
(***************************************************************************)
Terminal == pc \in {"done", "crashed"}
GotoReturned == chart.pair # "blank"
AllDefault ==
    /\ coin = "BTC" /\ exchange = "Binance" /\ quote_currency = "USDT"
    /\ time_range = "24h"
PairPcs == {"pair_check", "pair_click", "pair_listbox", "pair_arm", "pair_option",
            "pair_running", "pair_exit", "pair_canvas"}
TimePcs == {"time_resolve", "time_click", "time_listbox", "time_arm", "time_option",
            "time_running", "time_exit", "time_canvas"}
CaptureReturned ==
    Count("cap", "canvas_strategy") = 1 /\ pc \in {"finally", "main_output", "done"}

\* C1: at the navigation, the pair option click and the time-range option
\* click the listener is armed before the triggering action is issued, so
\* no matching response (keyword in the URL, status 200) arriving after the
\* action was issued and before the timeout goes unheard.
C1_ListenerArmedBeforeAction ==
    /\ acting # "no" =>
         /\ site \in {"nav", "pair", "time"}
         /\ corr \in {"armed", "resolved", "expired"}
    /\ \A s \in {"nav", "pair", "time"} : Count(s, "action") <= Count(s, "arm")
    /\ ~missed

\* C1 witness: after the navigation and the pair click were correlated, the
\* response to the time-range click arrives before the click has returned.
C1_Witness ==
    /\ Count("nav", "action") = 1
    /\ Count("pair", "action") = 1
    /\ site = "time"
    /\ acting = "running"
    /\ corr = "resolved"

\* C2 (as claimed): whenever the navigation response has status >= 400 the
\* run ends with screenshot_heatmap returning None and a success=false
\* record, with no selection procedure and no capture strategy invoked.
C2_HardFailReturnsNone ==
    (Terminal /\ GotoReturned /\ navStatus >= 400) =>
        /\ ret = "None"
        /\ output.written /\ ~output.success
        /\ Count("pair", "enter") = 0
        /\ Count("time", "enter") = 0
        /\ Count("cap", "canvas_strategy") = 0
        /\ Count("cap", "container_strategy") = 0

\* C3 (as claimed): a run whose navigation returned a status below 400
\* goes on to the initial render-stability wait, both selection procedures
\* and capture even if the initial correlation timed out.
C3_InitialTimeoutIsSoft ==
    (Terminal /\ GotoReturned /\ navStatus < 400) =>
        /\ Count("nav", "canvas_wait") = 1
        /\ Count("pair", "enter") = 1
        /\ Count("time", "enter") = 1
        /\ Count("cap", "canvas_strategy") = 1

\* C4: once select_pair has been entered, whatever fails inside it or inside
\* select_time_range, the run goes through select_time_range and
\* capture_heatmap without an exception, and stores success=true with the
\* image whenever capture returned non-empty bytes.
C4_SelectionNeverAborts ==
    /\ Count("pair", "enter") = 1 => exc = "none" /\ pc # "crashed"
    /\ ("pair_failed" \in log \/ "time_failed" \in log) => pc \notin PairPcs
    /\ (Count("pair", "enter") = 1 /\ pc \in {"finally", "main_output", "done"}) =>
         /\ Count("time", "enter") = 1
         /\ Count("cap", "canvas_strategy") = 1
    /\ (Count("pair", "enter") = 1 /\ pc = "done") =>
         /\ output.written
         /\ TruthyBytes(ret) => (output.success /\ output.image = ret)

\* C4 witness: the listbox of the pair selection never showed, the time-range
\* selection failed too, and the run still stored success=true.
C4_Witness ==
    /\ pc = "done"
    /\ Count("pair", "listbox_wait") = 1
    /\ Count("pair", "arm") = 0
    /\ "pair_failed" \in log
    /\ "time_failed" \in log
    /\ output.success

\* C5: with coin BTC, exchange Binance, quote USDT and time range 24h both
\* selection procedures do nothing: no click, no listbox wait, no armed
\* listener and no render-stability wait between the initial wait and capture.
C5_DefaultsSkipSelection ==
    AllDefault =>
        /\ \A s \in {"pair", "time"} :
             \A op \in {"control_click", "listbox_wait", "arm", "action",
                        "canvas_wait"} : Count(s, op) = 0
        /\ pc \in PairPcs \cup TimePcs => pc \in {"pair_check", "time_resolve"}
        /\ pc \in {"pair_check", "time_resolve", "cap_canvas"} =>
             /\ corr = "idle"
             /\ Count("nav", "canvas_wait") = 1
             /\ Total("arm") = 1
        /\ Total("canvas_wait") <= 1

\* C5 witness: an all-default run has reached capture.
C5_Witness ==
    /\ AllDefault
    /\ pc = "cap_canvas"
    /\ Count("pair", "enter") = 1
    /\ Count("time", "enter") = 1

C7_GetTimeLabel ==
    Count("time", "enter") > 0 =>
        /\ time_range \in {"12h", "24h", "48h", "3d", "1w", "2w", "1m", "3m", "6m", "1y"} =>
             /\ timeKey = time_range
             /\ timeLabel = TIME_RANGE_MAP[time_range]
             /\ "time_invalid" \notin log
        /\ time_range \notin {"12h", "24h", "48h", "3d", "1w", "2w", "1m", "3m", "6m", "1y"} =>
             /\ timeKey = "24h"
             /\ timeLabel = "24 hour"
             /\ "time_invalid" \in log
        /\ timeKey \in DOMAIN TIME_RANGE_MAP
        /\ timeLabel = TIME_RANGE_MAP[timeKey]

\* C7 witness: a key outside the mapping was resolved to the default.
C7_Witness ==
    /\ time_range = "7d"
    /\ Count("time", "enter") = 1
    /\ timeKey = "24h"
    /\ timeLabel = "24 hour"

\* C8 (as claimed): wait_for_canvas_ready returns True only if two adjacent
\* polls were both content-present (ratio > 0.1) and less than 0.01 apart.
C8_TrueNeedsAdjacentStablePair == cw_pc = "true" => adjacentStable

\* C9: the fallback strategy is not invoked when the primary strategy
\* returned non-empty bytes, and is invoked exactly once when it returned
\* None or empty bytes (also after an exception it caught).
C9_FallbackOnlyOnEmptyPrimary ==
    /\ Count("cap", "container_strategy") <= Count("cap", "canvas_strategy")
    /\ Count("cap", "canvas_strategy") <= 1
    /\ TruthyBytes(primary) => Count("cap", "container_strategy") = 0
    /\ (CaptureReturned /\ ~TruthyBytes(primary)) =>
         Count("cap", "container_strategy") = 1

\* C9 witness: the primary strategy returned empty bytes and the fallback ran.
C9_Witness ==
    /\ pc = "done"
    /\ primary = "empty"
    /\ Count("cap", "screenshot") = 2
    /\ Count("cap", "container_strategy") = 1

\* C10: capture_heatmap raises nothing, returns None only if the primary
\* strategy yielded nothing and the fallback ran and yielded None, and
\* returns the bytes of whichever strategy produced some.
C10_CaptureNeverRaises ==
    /\ Count("cap", "canvas_strategy") > 0 => exc = "none" /\ pc # "crashed"
    /\ CaptureReturned =>
         /\ ret \in {"None", "empty", "canvas_png", "container_png"}
         /\ ret = "None" =>
              /\ ~TruthyBytes(primary)
              /\ Count("cap", "container_strategy") = 1
              /\ "container_shot_ok" \notin log
         /\ TruthyBytes(primary) => ret = primary
         /\ "container_shot_ok" \in log => ret \in {"container_png", "empty"}
         /\ ret = "container_png" => "container_shot_ok" \in log

\* C10 witness: both strategies raised and the run ended with a stored
\* success=false record.
C10_Witness ==
    /\ pc = "done"
    /\ "canvas_shot_error" \in log
    /\ "container_shot_error" \in log
    /\ ret = "None"
    /\ output.written /\ ~output.success

\* C11: once the browser was launched it is closed exactly once on every exit
\* path of screenshot_heatmap: a return with bytes, the hard-failure return,
\* a capture that returned None, and an exception out of page creation,
\* navigation or the correlation wait (selection and capture catch theirs).
C11_BrowserClosedOnce ==
    /\ closes <= 1
    /\ browser = "none" => closes = 0 /\ pc \in {"launch", "crashed"}
    /\ browser = "open" => closes = 0 /\ ~Terminal /\ pc # "main_output"
    /\ browser = "closed" => closes = 1 /\ pc \in {"main_output", "done", "crashed"}

\* C11 witness: the run ended on the correlation timeout of the navigation,
\* with the browser closed once.
C11_Witness ==
    /\ pc = "crashed"
    /\ exc = "TimeoutError"
    /\ browser = "closed"
    /\ closes = 1

\* C12 (as claimed): every run that issued the navigation ends with an
\* OUTPUT record stored, success=true with an image or success=false with an
\* error and no image, whatever navigation, correlation, selection and
\* capture did, and never with an exception leaving main.
C12_OutputAlwaysStored ==
    (Terminal /\ Count("nav", "action") = 1) =>
        /\ pc = "done"
        /\ exc = "none"
        /\ output.written
        /\ output.success => TruthyBytes(output.image)
        /\ ~output.success => (output.error # "" /\ output.image = "None")

\* C13 (as claimed): after any sample that is not content-present (an
\* evaluate that raised, a not-ready result, a ratio <= 0.1) the
\* consecutive-stable counter is 0.
C13_NonContentResetsCounter ==
    (polls > 0 /\ ~ContentPresent(prevSample)) => stable_count = 0

\* the content-present samples among the first n of the feed
PresentCount(n) == Cardinality({i \in 1..n : ContentPresent(feed[i])})

\* samples j-2, j-1, j of the feed are content-present, each within the delta
\* bound of the one before
StableTriple(j) ==
    /\ j >= 3
    /\ j <= Len(feed)
    /\ AdjacentPair(feed[j - 2], feed[j - 1])
    /\ AdjacentPair(feed[j - 1], feed[j])

ExampleFeed ==
    <<ReadySample(0), ReadySample(50), ReadySample(300), ReadySample(305),
      ReadySample(306)>>

\* C14: wait_for_canvas_ready returns True only after two stable comparisons,
\* so after at least three content-present samples; the first content-present
\* sample is never stable; three consecutive samples above 0.1 whose adjacent
\* differences are below 0.01, taken before the timeout, make it return True
\* at the third at the latest.  On [0.0, 0.05, 0.30, 0.305, 0.306] it returns
\* True at the 5th sample, and False when the timeout allows 3 samples.
C14_TwoStableComparisons ==
    /\ cw_pc = "true" => (stable_count = StableNeeded /\ PresentCount(polls) >= 3)
    /\ PresentCount(polls) <= 1 => (stable_count = 0 /\ cw_pc # "true")
    /\ \A j \in 3..Len(feed) :
         (StableTriple(j) /\ polls >= j) => (cw_pc = "true" /\ polls <= j)
    /\ (feed = ExampleFeed /\ cw_timeout = CanvasTimeoutMs) =>
         /\ polls < 5 => cw_pc = "loop"
         /\ polls = 5 => cw_pc = "true"
    /\ (feed = ExampleFeed /\ cw_timeout = 3 * CheckIntervalMs) =>
         /\ polls <= 3
         /\ cw_pc # "true"
         /\ polls = 3 => (cw_pc = "false" \/ ENABLED CanvasTimeout)

\* C14 witness: the example sequence made the call return True at its 5th
\* sample.
C14_Witness ==
    /\ feed = ExampleFeed
    /\ cw_timeout = CanvasTimeoutMs
    /\ polls = 5
    /\ cw_pc = "true"

\* C15: wait_for_canvas_ready ends with a boolean: a sample that raised
\* leaves the loop running, every poll takes at least the check interval so
\* there are at most timeout/check_interval = 50 polls, a running loop can
\* always take its next step, and False is returned once the timeout has
\* elapsed with the stable threshold not reached.
C15_TerminatesWithBoolean ==
    /\ cw_pc \in {"loop", "true", "false"}
    /\ polls <= cw_timeout \div CheckIntervalMs
    /\ polls <= 50
    /\ cw_pc \in {"loop", "false"} => elapsed >= polls * CheckIntervalMs
    /\ cw_pc = "loop" => ENABLED CanvasNext
    /\ prevSample.kind = "error" => cw_pc \in {"loop", "false"}
    /\ cw_pc = "false" => (elapsed >= cw_timeout /\ stable_count < StableNeeded)
    /\ cw_pc = "true" => stable_count >= StableNeeded

\* C15 witness: the call returned False after 50 polls, the last of which
\* raised.
C15_Witness ==
    /\ cw_pc = "false"
    /\ polls = 50
    /\ prevSample.kind = "error"

\* C16: when the option list did not show in time in select_pair or
\* select_time_range, that procedure clicks no option, arms no listener,
\* runs no render-stability wait, and leaves the chart as it found it.
C16_ListboxTimeoutAbandons ==
    \A s \in {"pair", "time"} :
        s \in listboxTimedOut =>
            /\ Count(s, "listbox_wait") = 1
            /\ Count(s, "arm") = 0
            /\ Count(s, "action") = 0
            /\ Count(s, "canvas_wait") = 0
            /\ (s \o "_failed") \in log
            /\ (s \o "_selected") \notin log
            /\ pc \notin (IF s = "pair" THEN PairPcs ELSE TimePcs)
            /\ chart[s] = entryChart[s][s]
            /\ (s = "time" \/ pc = "time_resolve") => chart = entryChart[s]

\* C16 witness: after OKX was selected the time-range list did not show, and
\* the run reached capture with the chart still on the selected pair and the
\* default time range.
C16_Witness ==
    /\ "time" \in listboxTimedOut
    /\ pc = "cap_canvas"
    /\ "pair_selected" \in log
    /\ chart = [pair |-> "OKX BTC/USDT Perpetual", time |-> "24 hour"]

\* C17 (as claimed): when a selection procedure ended through its except
\* clause the chart is on the configuration it had when the procedure
\* started, also when the option click succeeded and only the correlated
\* reload timed out.
C17_FailedSelectionKeepsChart ==
    /\ "pair_failed" \in log => chart.pair = entryChart["pair"].pair
    /\ "time_failed" \in log => chart = entryChart["time"]

\* select_pair went past its skip test into the interaction
PairAttempted == "pair_selecting" \in log
\* select_time_range went past its skip test into the interaction
TimeAttempted == "time_selecting" \in log

C19_ScreenshotNeedsLargeVisibleCanvas ==
    pc = "cap_decide" =>
        /\ Count("cap", "screenshot") = 1 =>
             /\ probe.vis = "visible"
             /\ probe.box.kind = "box"
             /\ probe.box.width > 500
             /\ probe.box.height > 300
        /\ (\/ probe.vis = "hidden"
            \/ probe.box.kind = "none"
            \/ probe.box.kind = "box" /\ (probe.box.width <= 500 \/ probe.box.height <= 300))
           => /\ Count("cap", "screenshot") = 0
              /\ primary = "None"
              /\ "canvas_shot_ok" \notin log
        /\ primary # "None" => Count("cap", "screenshot") = 1

\* C19 witness: a visible canvas of exactly 500x300 was passed over.
C19_Witness ==
    /\ pc = "cap_decide"
    /\ probe.vis = "visible"
    /\ probe.box = [kind |-> "box", width |-> 500, height |-> 300]
    /\ Count("cap", "screenshot") = 0
    /\ primary = "None"

\* C20 (as claimed): the timeRange of the OUTPUT record and of the stored
\* filename is the resolved key select_time_range worked with, a key of the
\* mapping; an input outside the mapping is reported as 24h.
C20_ReportedTimeRangeIsResolved ==
    (output.written /\ Count("time", "enter") = 1) =>
        /\ output.timeRange = timeKey
        /\ output.timeRange \in DOMAIN TIME_RANGE_MAP
        /\ output.success =>
             output.filename = exchange \o "_" \o coin \o quote_currency \o "_"
                               \o timeKey \o ".png"

============================================================================
